---- MODULE Spec2Model ----
(***************************************************************************)
(* Mirror-Downloader: the streaming download-relay pipeline of the         *)
(* Google-Drive server variant (src/unnamed/part_001), which contains the  *)
(* local-only variant (src/server.js) as the case in which the Drive       *)
(* backend is never initialised.                                           *)
(*                                                                         *)
(* Strings of the program are sequences of one-character strings.  A JS    *)
(* object is a function whose DOMAIN is its set of keys, so that the       *)
(* spread {...old, k: v} is Spread(old, [k |-> v]) and a missing Map entry *)
(* spreads as the empty object.                                            *)
(***************************************************************************)
EXTENDS Integers, Sequences, FiniteSets, TLC

(* ------------------------------ bounds --------------------------------- *)
\* the largest content-length a HEAD or GET response announces
MaxSize == 3
\* the largest number of body bytes a source delivers
MaxBytes == 3
\* the largest length of one data chunk
MaxChunk == 2
\* the size of a large body, for which one byte is half a percent
LargeSize == 200

(* ------------------------------ strings -------------------------------- *)
DEFAULT_FILENAME_PREFIX == <<"d", "o", "w", "n", "l", "o", "a", "d", "_">>

FILENAME_WORD == <<"f", "i", "l", "e", "n", "a", "m", "e">>

DOWNLOADS == <<"d", "o", "w", "n", "l", "o", "a", "d", "s">>

\* the route prefix of a local download URL
DOWNLOADS_ROUTE == <<"/">> \o DOWNLOADS \o <<"/">>

DRIVE_LINK == <<"h", "t", "t", "p", "s", ":", "/", "/", "d", "r", "i", "v", "e">>

QUOTES == {"'", "\""}

StartsWith(s, p) == Len(s) >= Len(p) /\ SubSeq(s, 1, Len(p)) = p

\* s.replace(/['"]/g, '')
RECURSIVE StripQuotes(_)
StripQuotes(s) ==
    IF s = <<>> THEN <<>>
    ELSE IF Head(s) \in QUOTES THEN StripQuotes(Tail(s))
    ELSE <<Head(s)>> \o StripQuotes(Tail(s))

\* the first position >= i of s holding a character of stop, or Len(s) + 1
RECURSIVE ScanTo(_, _, _)
ScanTo(s, i, stop) ==
    IF i > Len(s) \/ s[i] \in stop THEN i ELSE ScanTo(s, i + 1, stop)

NoMatch == [ok |-> FALSE, g1 |-> <<>>]

\* /filename[^;=\n]*=((['"]).*?\2|[^;\n]*)/ anchored at position i of s
MatchAt(s, i) ==
    IF i + 7 > Len(s) \/ SubSeq(s, i, i + 7) # FILENAME_WORD THEN NoMatch
    ELSE LET j == ScanTo(s, i + 8, {";", "=", "\n"})
         IN  IF j > Len(s) \/ s[j] # "=" THEN NoMatch
             ELSE LET k == j + 1
                      c == IF k <= Len(s) /\ s[k] \in QUOTES
                           THEN ScanTo(s, k + 1, {s[k], "\n"})
                           ELSE Len(s) + 1
                      e == ScanTo(s, k, {";", "\n"})
                  IN  IF c <= Len(s) /\ s[c] = s[k]
                      THEN [ok |-> TRUE, g1 |-> SubSeq(s, k, c)]
                      ELSE [ok |-> TRUE, g1 |-> SubSeq(s, k, e - 1)]

\* contentDisposition.match(...): the leftmost match
RECURSIVE MatchFrom(_, _)
MatchFrom(s, i) ==
    IF i > Len(s) THEN NoMatch
    ELSE IF MatchAt(s, i).ok THEN MatchAt(s, i)
    ELSE MatchFrom(s, i + 1)

\* path.basename: trailing separators dropped, then what follows the last one
RECURSIVE DropTrailingSlashes(_)
DropTrailingSlashes(p) ==
    IF p # <<>> /\ p[Len(p)] = "/" THEN DropTrailingSlashes(SubSeq(p, 1, Len(p) - 1))
    ELSE p

RECURSIVE AfterLastSlash(_)
AfterLastSlash(p) ==
    IF p = <<>> \/ p[Len(p)] = "/" THEN <<>>
    ELSE AfterLastSlash(SubSeq(p, 1, Len(p) - 1)) \o <<p[Len(p)]>>

basename(p) == AfterLastSlash(DropTrailingSlashes(p))

\* decodeURIComponent on the alphabet of the model: the hexadecimal digits of
\* the inputs are 2, E and F, so that %22, %2E and %2F decode and every other
\* escape is malformed (a lone lead byte or a truncated escape): URIError
PercentCodes == {<<"2", "2">>, <<"2", "E">>, <<"2", "F">>}

PercentChar(pair) ==
    IF pair = <<"2", "2">> THEN "\""
    ELSE IF pair = <<"2", "E">> THEN "."
    ELSE "/"

RECURSIVE DecodeOk(_)
DecodeOk(s) ==
    IF s = <<>> THEN TRUE
    ELSE IF Head(s) = "%"
         THEN Len(s) >= 3 /\ SubSeq(s, 2, 3) \in PercentCodes /\ DecodeOk(SubSeq(s, 4, Len(s)))
         ELSE DecodeOk(Tail(s))

RECURSIVE decodeURIComponent(_)
decodeURIComponent(s) ==
    IF s = <<>> THEN <<>>
    ELSE IF Head(s) = "%"
         THEN <<PercentChar(SubSeq(s, 2, 3))>> \o decodeURIComponent(SubSeq(s, 4, Len(s)))
         ELSE <<Head(s)>> \o decodeURIComponent(Tail(s))

\* uuidv4().substring(0, 8): eight hexadecimal characters; n is the random draw
Token(n) == <<"0", "0", "0", "0", "0", "0", "0">> \o <<IF n = 1 THEN "a" ELSE "b">>

Tokens == {Token(1), Token(2)}

\* the header object {} of a failed probe: no content-disposition, no length
NoHeaders == [cd |-> <<>>, cl |-> 0]

\* getFilename(url, headers); tok is the uuid drawn if the default name is built.
\* url is [parses, pathname]: what new URL(url) does with the request's string.
getFilename(url, headers, tok) ==
    LET contentDisposition == headers.cd
        match == MatchFrom(contentDisposition, 1)
        filename == basename(url.pathname)
    IN  IF contentDisposition # <<>> /\ match.ok /\ match.g1 # <<>>
        THEN StripQuotes(match.g1)
        ELSE IF url.parses /\ filename # <<>> /\ filename # <<"/">> /\ DecodeOk(filename)
        THEN decodeURIComponent(filename)
        ELSE DEFAULT_FILENAME_PREFIX \o tok


(* ------------------------------- paths --------------------------------- *)
\* s.split("/")
RECURSIVE Split(_)
Split(s) ==
    LET i == ScanTo(s, 1, {"/"})
    IN  IF i > Len(s) THEN <<s>>
        ELSE <<SubSeq(s, 1, i - 1)>> \o Split(SubSeq(s, i + 1, Len(s)))

\* path.normalize on a list of segments: "" and "." vanish, ".." pops
RECURSIVE Normalize(_, _)
Normalize(acc, segs) ==
    IF segs = <<>> THEN acc
    ELSE LET h == Head(segs)
         IN  IF h = <<>> \/ h = <<".">> THEN Normalize(acc, Tail(segs))
             ELSE IF h = <<".", ".">> /\ acc # <<>> /\ acc[Len(acc)] # <<".", ".">>
             THEN Normalize(SubSeq(acc, 1, Len(acc) - 1), Tail(segs))
             ELSE Normalize(Append(acc, h), Tail(segs))

\* path.join(__dirname, 'downloads'), as segments below __dirname
downloadsDir == <<DOWNLOADS>>

\* path.join(dir, name)
pathJoin(dir, name) == Normalize(dir, Split(name))

\* the directories that exist: __dirname, its ancestors, and downloads
IsDir(p) == p = downloadsDir \/ \A i \in 1..Len(p) : p[i] = <<".", ".">>

\* fs.open(path, 'w') succeeds: the parent is a directory, the path is not one
CanOpen(p) == p # <<>> /\ ~IsDir(p) /\ IsDir(SubSeq(p, 1, Len(p) - 1))

(* ------------------------------ objects -------------------------------- *)
EmptyObj == <<>>

\* {...old, ...new}
Spread(old, new) ==
    [k \in DOMAIN old \cup DOMAIN new |-> IF k \in DOMAIN new THEN new[k] ELSE old[k]]

\* Map.get; undefined spreads as the empty object
MapGet(m, id) == IF id \in DOMAIN m THEN m[id] ELSE EmptyObj

MapSet(m, id, v) == [k \in DOMAIN m \cup {id} |-> IF k = id THEN v ELSE m[k]]

\* the Map emptied in place of the removal of one key
MapDelete_Clear(m, id) == EmptyObj

MapDelete(m, id) == [k \in DOMAIN m \ {id} |-> m[k]]

(* ------------------------------- inputs -------------------------------- *)
AllTransfers == {1, 2}

AllSockets == {"s1", "s2"}

UrlFile == [parses |-> TRUE, pathname |-> <<"/", "d", "/", "a", ".", "b">>]

UrlRoot == [parses |-> TRUE, pathname |-> <<"/">>]

UrlBad == [parses |-> FALSE, pathname |-> <<>>]

Urls == {UrlFile, UrlRoot, UrlBad}

\* Content-Disposition: attachment; filename="r.pdf"
CdReport ==
    <<"a", "t", "t", ";", " ">> \o FILENAME_WORD \o <<"=", "\"", "r", ".", "p", "d", "f", "\"">>

ContentDispositions == {<<>>, CdReport}

\* parseInt(headers['content-length']) || 0 of a HEAD response
HeadHeaders == [cd : ContentDispositions, cl : 0..MaxSize]

\* a GET response: with a content-length the body has exactly that many bytes
GetHeaders == [cd : ContentDispositions, cl : 0..MaxBytes]

ErrorMessages == {"", "connect ECONNREFUSED"}

\* requests and responses that exercise the Filename Resolver
\* http://h/d/ : the path ends with a separator
UrlDir == [parses |-> TRUE, pathname |-> <<"/", "d", "/">>]

\* http://h/%2 : a truncated percent escape
UrlEscape == [parses |-> TRUE, pathname |-> <<"/", "%", "2">>]

\* http://h/%2F..%2Fx : encoded separators inside the last segment
UrlSlash == [parses |-> TRUE,
             pathname |-> <<"/", "%", "2", "F", ".", ".", "%", "2", "F", "x">>]

NameUrls == {UrlFile, UrlRoot, UrlBad, UrlDir, UrlEscape, UrlSlash}

\* Content-Disposition: attachment; filename="a'b"
CdInnerQuote == <<"a", "t", "t", ";", " ">> \o FILENAME_WORD \o <<"=", "\"", "a", "'", "b", "\"">>

\* Content-Disposition: attachment; filename="/../../x"
CdTraversal ==
    <<"a", "t", "t", ";", " ">> \o FILENAME_WORD
        \o <<"=", "\"", "/", ".", ".", "/", ".", ".", "/", "x", "\"">>

NameDispositions == {<<>>, CdReport, CdInnerQuote, CdTraversal}

\* responses without a content-length
NameHeaders == [cd : NameDispositions, cl : {0}]

(* ------------------------------- state --------------------------------- *)
VARIABLES
    driveClient,      \* driveClient is set (truthy)
    driveFolderId,    \* driveFolderId is set (truthy)
    initPc,           \* position of the server.listen callback / initGoogleDrive
    connected,        \* socket -> the client channel is connected
    activeDownloads,  \* the Map: downloadId -> entry object
    files,            \* the file system below __dirname: path -> size in bytes
    unlinks,          \* paths with an fs.unlink in flight
    pc,               \* position of the async start-download handler
    sock,             \* closure: socket
    url,              \* closure: url
    fileSize,         \* closure: let fileSize
    filename,         \* closure: let filename
    uniqueFilename,   \* closure: const uniqueFilename
    downloadedBytes,  \* closure: let downloadedBytes
    lastProgress,     \* closure: let lastProgress
    getLength,        \* content-length framing of the GET body, 0 = none
    src,              \* response.data: none, flowing, paused, stopped, ended, errored
    piped,            \* the listeners of response.data.pipe(writer) are attached
    writer,           \* the write stream: none, open, ending, finished, errored
    ioPending,        \* an open or write of the write stream is in flight
    fin,              \* position of the async finish handler
    finalSize,        \* closure of the finish handler: const finalSize
    emitted           \* downloadId -> the socket.emit calls carrying it, in order

vars == <<driveClient, driveFolderId, initPc, connected, activeDownloads, files, unlinks,
          pc, sock, url, fileSize, filename, uniqueFilename, downloadedBytes,
          lastProgress, getLength, src, piped, writer, ioPending, fin, finalSize,
          emitted>>

driveVars == <<driveClient, driveFolderId, initPc>>

closureVars == <<sock, url, fileSize, filename, uniqueFilename>>

streamVars == <<downloadedBytes, lastProgress, getLength, src, piped, writer, ioPending>>

filePath(t) == pathJoin(downloadsDir, uniqueFilename[t])

Init ==
    /\ driveClient = FALSE
    /\ driveFolderId = FALSE
    /\ initPc = "listen"
    /\ connected = [s \in AllSockets |-> TRUE]
    /\ activeDownloads = EmptyObj
    /\ files = EmptyObj
    /\ unlinks = {}
    /\ pc = [t \in AllTransfers |-> "idle"]
    /\ sock = [t \in AllTransfers |-> "s1"]
    /\ url = [t \in AllTransfers |-> UrlBad]
    /\ fileSize = [t \in AllTransfers |-> 0]
    /\ filename = [t \in AllTransfers |-> <<>>]
    /\ uniqueFilename = [t \in AllTransfers |-> <<>>]
    /\ downloadedBytes = [t \in AllTransfers |-> 0]
    /\ lastProgress = [t \in AllTransfers |-> 0]
    /\ getLength = [t \in AllTransfers |-> 0]
    /\ src = [t \in AllTransfers |-> "none"]
    /\ piped = [t \in AllTransfers |-> FALSE]
    /\ writer = [t \in AllTransfers |-> "none"]
    /\ ioPending = [t \in AllTransfers |-> FALSE]
    /\ fin = [t \in AllTransfers |-> "none"]
    /\ finalSize = [t \in AllTransfers |-> 0]
    /\ emitted = [t \in AllTransfers |-> <<>>]

\* socket.emit(type, payload) of the handler of transfer t
Emit(t, ev) == [emitted EXCEPT ![t] = Append(@, ev)]


(* ------------------------- backend initialisation ---------------------- *)
\* server.listen callback -> initGoogleDrive: credentials.json is missing, or
\* reading/parsing it or building the client throws: return false
InitNoClient ==
    /\ initPc = "listen"
    /\ initPc' = "done"
    /\ UNCHANGED <<driveClient, driveFolderId>>

\* initGoogleDrive: driveClient is assigned, then getOrCreateFolder is awaited
InitClient ==
    /\ initPc = "listen"
    /\ driveClient' = TRUE
    /\ initPc' = "folder"
    /\ UNCHANGED driveFolderId

\* getOrCreateFolder resolved: driveFolderId is assigned, return true
InitFolderOk ==
    /\ initPc = "folder"
    /\ driveFolderId' = TRUE
    /\ initPc' = "done"
    /\ UNCHANGED driveClient

\* getOrCreateFolder threw: caught, return false; driveClient stays assigned
InitFolderFail ==
    /\ initPc = "folder"
    /\ initPc' = "done"
    /\ UNCHANGED <<driveClient, driveFolderId>>

InitStep ==
    /\ InitNoClient \/ InitClient \/ InitFolderOk \/ InitFolderFail
    /\ UNCHANGED <<connected, activeDownloads, files, unlinks, pc, closureVars,
                   streamVars, fin, finalSize, emitted>>

(* ------------------------------ the channel ---------------------------- *)
\* socket.on('disconnect'): the handler logs and does nothing else
Disconnect(s) ==
    /\ connected[s]
    /\ connected' = [connected EXCEPT ![s] = FALSE]
    /\ UNCHANGED <<driveVars, activeDownloads, files, unlinks, pc, closureVars,
                   streamVars, fin, finalSize, emitted>>

(* --------------------------- start-download ---------------------------- *)
\* socket.on('start-download'): downloadId = uuidv4() (the transfer t itself),
\* then the handler awaits axios.head
StartDownload(t, s, u) ==
    /\ pc[t] = "idle"
    /\ connected[s]
    /\ pc' = [pc EXCEPT ![t] = "head"]
    /\ sock' = [sock EXCEPT ![t] = s]
    /\ url' = [url EXCEPT ![t] = u]
    /\ UNCHANGED <<driveVars, connected, activeDownloads, files, unlinks, fileSize,
                   filename, uniqueFilename, streamVars, fin, finalSize, emitted>>

ErrorEvent(t, msg) == [type |-> "download-error", downloadId |-> t, error |-> msg]

\* `${uuidv4().substring(0, 8)}_${filename}`
UniqueName(tok, name) == tok \o <<"_">> \o name

\* the HEAD probe resolved with headers h; tok and tok2 are the uuids drawn.
\* The handler runs on to the await of the GET.
HeadOk(t, h, tok, tok2) ==
    /\ pc[t] = "head"
    /\ url[t].parses
    /\ fileSize' = [fileSize EXCEPT ![t] = h.cl]
    /\ filename' = [filename EXCEPT ![t] = getFilename(url[t], h, tok)]
    /\ uniqueFilename' = [uniqueFilename EXCEPT ![t] = UniqueName(tok2, filename'[t])]
    /\ pc' = [pc EXCEPT ![t] = "get"]
    /\ UNCHANGED <<driveVars, connected, activeDownloads, files, unlinks, sock, url,
                   streamVars, fin, finalSize, emitted>>

\* the probe failure treated as fatal: the outer catch runs
HeadFail_Fatal(t, tok, tok2) ==
    /\ pc[t] = "head"
    /\ emitted' = Emit(t, ErrorEvent(t, "Failed to download file"))
    /\ activeDownloads' = MapDelete(activeDownloads, t)
    /\ pc' = [pc EXCEPT ![t] = "caught"]
    /\ UNCHANGED <<driveVars, connected, files, unlinks, closureVars, streamVars, fin,
                   finalSize>>

\* the HEAD probe rejected (network error, status, timeout, redirects, bad URL):
\* catch (e) { filename = getFilename(url, {}) }; fileSize stays 0
HeadFail(t, tok, tok2) ==
    /\ pc[t] = "head"
    /\ filename' = [filename EXCEPT ![t] = getFilename(url[t], NoHeaders, tok)]
    /\ uniqueFilename' = [uniqueFilename EXCEPT ![t] = UniqueName(tok2, filename'[t])]
    /\ pc' = [pc EXCEPT ![t] = "get"]
    /\ UNCHANGED <<driveVars, connected, activeDownloads, files, unlinks, sock, url,
                   fileSize, streamVars, fin, finalSize, emitted>>

\* the GET rejected: the outer catch emits the error's message (or the fallback)
\* and deletes the id from the Map
GetFail(t, msg) ==
    /\ pc[t] = "get"
    /\ emitted' = Emit(t, ErrorEvent(t, IF msg # "" THEN msg ELSE "Failed to download file"))
    /\ activeDownloads' = MapDelete(activeDownloads, t)
    /\ pc' = [pc EXCEPT ![t] = "caught"]
    /\ UNCHANGED <<driveVars, connected, files, unlinks, closureVars, streamVars, fin,
                   finalSize>>

\* if (!fileSize) fileSize = parseInt(response.headers['content-length']) || 0
SizeAfterGet(probeSize, h) == IF probeSize = 0 THEN h.cl ELSE probeSize

\* the name of the GET response taken whatever the probe resolved
NameAfterGet_Always(probeName, u, h, tok) == getFilename(u, h, tok)

\* if (!filename || filename.startsWith(DEFAULT_FILENAME_PREFIX)) filename = getFilename(...)
NameAfterGet(probeName, u, h, tok) ==
    IF probeName = <<>> \/ StartsWith(probeName, DEFAULT_FILENAME_PREFIX)
    THEN getFilename(u, h, tok)
    ELSE probeName

\* the entry stored at registration
NewEntry(t, name, size) ==
    [filename |-> name, filePath |-> filePath(t), fileSize |-> size,
     downloadedBytes |-> 0, status |-> "downloading"]

StartedEvent(t, name, size) ==
    [type |-> "download-started", downloadId |-> t, filename |-> name, fileSize |-> size]

\* the GET resolved with headers h: size and name are settled, the write stream
\* is created (its open is in flight), the entry is registered, download-started
\* is emitted, the data listener is attached and the response is piped
GetOk(t, h, tok) ==
    /\ pc[t] = "get"
    /\ url[t].parses
    /\ fileSize' = [fileSize EXCEPT ![t] = SizeAfterGet(fileSize[t], h)]
    /\ filename' = [filename EXCEPT ![t] = NameAfterGet(filename[t], url[t], h, tok)]
    /\ writer' = [writer EXCEPT ![t] = "open"]
    /\ ioPending' = [ioPending EXCEPT ![t] = TRUE]
    /\ downloadedBytes' = [downloadedBytes EXCEPT ![t] = 0]
    /\ lastProgress' = [lastProgress EXCEPT ![t] = 0]
    /\ activeDownloads' = MapSet(activeDownloads, t, NewEntry(t, filename'[t], fileSize'[t]))
    /\ emitted' = Emit(t, StartedEvent(t, filename'[t], fileSize'[t]))
    /\ getLength' = [getLength EXCEPT ![t] = h.cl]
    /\ src' = [src EXCEPT ![t] = "flowing"]
    /\ piped' = [piped EXCEPT ![t] = TRUE]
    /\ pc' = [pc EXCEPT ![t] = "registered"]
    /\ UNCHANGED <<driveVars, connected, files, unlinks, sock, url, uniqueFilename, fin,
                   finalSize>>


(* ------------------------------ streaming ------------------------------ *)
\* Math.round((downloadedBytes / fileSize) * 100), or -1 when the size is unknown.
\* Math.round rounds halves up; on the sizes and byte counts of the model the
\* double arithmetic agrees with the exact one (no quotient falls within an ulp
\* of a half, as e.g. 29 of 200 bytes would).
Percent(bytes, size) == IF size > 0 THEN (200 * bytes + size) \div (2 * size) ELSE -1

ProgressEvent(t, bytes, size, progress, speed) ==
    [type |-> "download-progress", downloadId |-> t, downloadedBytes |-> bytes,
     fileSize |-> size, progress |-> progress, speed |-> speed]

\* the throttle left out: every chunk is reported
Throttle_Always(progress, last) == TRUE

\* if (progress !== lastProgress || progress === -1)
Throttle(progress, last) == progress # last \/ progress = -1

\* activeDownloads.set(downloadId, {...activeDownloads.get(downloadId), downloadedBytes, status})
DataEntry(old, bytes) == Spread(old, [downloadedBytes |-> bytes, status |-> "downloading"])

\* downloadedBytes = chunk.length in place of +=
Accumulate_Assign(bytes, n) == n

\* downloadedBytes += chunk.length
Accumulate(bytes, n) == bytes + n

\* response.data 'data' with a chunk of n bytes: the handler of the program runs
\* first, then the listener of pipe() writes the chunk; full says that
\* writer.write returned false, which pauses the source until 'drain'.  counts
\* are the numbers of bytes the source may have delivered after a chunk.
DataWithin(t, n, full, counts) ==
    /\ src[t] = "flowing"
    /\ downloadedBytes[t] + n \in counts
    /\ getLength[t] = 0 \/ downloadedBytes[t] + n <= getLength[t]
    /\ LET bytes == Accumulate(downloadedBytes[t], n)
           progress == Percent(bytes, fileSize[t])
       IN  /\ downloadedBytes' = [downloadedBytes EXCEPT ![t] = bytes]
           /\ IF Throttle(progress, lastProgress[t])
              THEN /\ lastProgress' = [lastProgress EXCEPT ![t] = progress]
                   /\ emitted' = Emit(t, ProgressEvent(t, bytes, fileSize[t], progress, "formatSpeed"))
              ELSE UNCHANGED <<lastProgress, emitted>>
           /\ activeDownloads' =
                  MapSet(activeDownloads, t, DataEntry(MapGet(activeDownloads, t), bytes))
    /\ IF piped[t]
       THEN /\ ioPending' = [ioPending EXCEPT ![t] = TRUE]
            /\ src' = [src EXCEPT ![t] = IF full THEN "paused" ELSE "flowing"]
       ELSE /\ ~full
            /\ UNCHANGED <<ioPending, src>>
    /\ UNCHANGED <<driveVars, connected, files, unlinks, pc, closureVars, getLength,
                   piped, writer, fin, finalSize>>

Data(t, n, full) == DataWithin(t, n, full, 0..MaxBytes)

\* the open and the writes in flight completed: the file holds every byte
\* written so far; a source paused for 'drain' flows again.  (Of two writers of
\* one path, the size recorded is that of the one whose writes completed last.)
IoDone(t) ==
    /\ ioPending[t]
    /\ writer[t] \in {"open", "ending"}
    /\ CanOpen(filePath(t))
    /\ files' = MapSet(files, filePath(t), downloadedBytes[t])
    /\ ioPending' = [ioPending EXCEPT ![t] = FALSE]
    /\ src' = [src EXCEPT ![t] = IF @ = "paused" THEN "flowing" ELSE @]
    /\ UNCHANGED <<driveVars, connected, activeDownloads, unlinks, pc, closureVars,
                   downloadedBytes, lastProgress, getLength, piped, writer, fin,
                   finalSize, emitted>>

\* response.data 'end' (with a content-length: only after that many bytes);
\* while piped, the listener of pipe() calls writer.end()
SrcEnd(t) ==
    /\ src[t] = "flowing"
    /\ getLength[t] = 0 \/ downloadedBytes[t] = getLength[t]
    /\ src' = [src EXCEPT ![t] = "ended"]
    /\ writer' = [writer EXCEPT ![t] = IF piped[t] THEN "ending" ELSE @]
    /\ UNCHANGED <<driveVars, connected, activeDownloads, files, unlinks, pc,
                   closureVars, downloadedBytes, lastProgress, getLength, piped,
                   ioPending, fin, finalSize, emitted>>

\* response.data fails while the body streams (reset, truncation): the program
\* attaches no 'error' or 'aborted' listener to it and pipe() forwards neither,
\* so no code of the program runs and the writer is never ended
SrcError(t) ==
    /\ src[t] \in {"flowing", "paused", "stopped"}
    /\ src' = [src EXCEPT ![t] = "errored"]
    /\ UNCHANGED <<driveVars, connected, activeDownloads, files, unlinks, pc,
                   closureVars, downloadedBytes, lastProgress, getLength, piped,
                   writer, ioPending, fin, finalSize, emitted>>

\* what the 'error' listener of pipe() (prepended, so it runs first) does to the
\* source: unpipe() pauses it, and the cleanup calls ondrain() when the source
\* was waiting for 'drain', which resumes it because the data listener of the
\* program is still attached
SrcAfterUnpipe(state) ==
    IF state = "paused" THEN "flowing"
    ELSE IF state = "flowing" THEN "stopped"
    ELSE state

\* the cleanup of the partial file left out
UnlinkPartial_Skip(pending, p) == pending

\* fs.unlink(filePath, callback) is issued
UnlinkPartial(pending, p) == pending \cup {p}

\* writer 'error' (open, write or final flush failed)
WriteError(t) ==
    /\ ioPending[t]
    /\ writer[t] \in {"open", "ending"}
    /\ writer' = [writer EXCEPT ![t] = "errored"]
    /\ ioPending' = [ioPending EXCEPT ![t] = FALSE]
    /\ src' = [src EXCEPT ![t] = IF piped[t] THEN SrcAfterUnpipe(@) ELSE @]
    /\ piped' = [piped EXCEPT ![t] = FALSE]
    /\ emitted' = Emit(t, ErrorEvent(t, "Failed to save file"))
    /\ unlinks' = UnlinkPartial(unlinks, filePath(t))
    /\ activeDownloads' = MapDelete(activeDownloads, t)
    /\ UNCHANGED <<driveVars, connected, files, pc, closureVars, downloadedBytes,
                   lastProgress, getLength, fin, finalSize>>

\* an fs.unlink in flight completed; ENOENT is swallowed
UnlinkDone(p) ==
    /\ p \in unlinks
    /\ unlinks' = unlinks \ {p}
    /\ files' = MapDelete(files, p)
    /\ UNCHANGED <<driveVars, connected, activeDownloads, pc, closureVars, streamVars,
                   fin, finalSize, emitted>>


(* ------------------------------ publishing ----------------------------- *)
\* `/downloads/${uniqueFilename}`
LocalUrl(t) == DOWNLOADS_ROUTE \o uniqueFilename[t]

\* file.data.id of the uploaded object
DriveFileId(t) == <<"i", "d", IF t = 1 THEN "1" ELSE "2">>

\* `https://drive.google.com/uc?export=download&id=${id}`, the literal shortened
DirectLink(id) == DRIVE_LINK \o <<"?">> \o id

\* `https://drive.google.com/file/d/${id}/view`, the literal shortened
WebLink(id) == DRIVE_LINK \o <<"/">> \o id

\* the local completion with the link left out
LocalEntry_NoUrl(old, size, link) ==
    Spread(old, [downloadedBytes |-> size, status |-> "completed"])

\* the entry written when the transfer completes with a local link
LocalEntry(old, size, link) ==
    Spread(old, [downloadedBytes |-> size, status |-> "completed", downloadUrl |-> link])

\* the entry written when the upload succeeded
DriveEntry(old, size, id) ==
    Spread(old, [downloadedBytes |-> size, status |-> "completed",
                 downloadUrl |-> DirectLink(id), driveFileId |-> id])

LocalCompleteEvent(t, size, warning) ==
    [type |-> "download-complete", downloadId |-> t, filename |-> filename[t],
     fileSize |-> size, downloadUrl |-> LocalUrl(t), source |-> "local",
     warning |-> warning]

DriveCompleteEvent(t, size, id) ==
    [type |-> "download-complete", downloadId |-> t, filename |-> filename[t],
     fileSize |-> size, downloadUrl |-> DirectLink(id), driveLink |-> WebLink(id),
     source |-> "google_drive"]

\* the backend taken for ready as soon as the client handle is set
DriveReady_ClientOnly == driveClient

\* if (driveClient && driveFolderId)
DriveReady == driveClient /\ driveFolderId

\* the size announced for the transfer taken for the size of the file
StatSize_Announced(t) == fileSize[t]

\* fs.statSync(filePath).size
StatSize(t) == files[filePath(t)]

\* writer 'finish': every byte is flushed (the close of the descriptor that
\* follows is taken to succeed).  fs.statSync throws when the file is gone,
\* which ends the async handler.  With the Drive backend ready the
\* publishing progress event is emitted and the handler awaits files.create of
\* uploadToGoogleDrive; otherwise the transfer completes with the local link
\* (src/server.js: always this branch, the event without source and warning).
Finish(t) ==
    /\ writer[t] = "ending"
    /\ ~ioPending[t]
    /\ writer' = [writer EXCEPT ![t] = "finished"]
    /\ piped' = [piped EXCEPT ![t] = FALSE]
    /\ IF filePath(t) \notin DOMAIN files
       THEN /\ fin' = [fin EXCEPT ![t] = "threw"]
            /\ UNCHANGED <<finalSize, emitted, activeDownloads>>
       ELSE LET size == StatSize(t)
            IN  /\ finalSize' = [finalSize EXCEPT ![t] = size]
                /\ IF DriveReady
                   THEN /\ emitted' = Emit(t, ProgressEvent(t, size, size, 100,
                                                 "Uploading to Google Drive..."))
                        /\ fin' = [fin EXCEPT ![t] = "create"]
                        /\ UNCHANGED activeDownloads
                   ELSE /\ activeDownloads' =
                               MapSet(activeDownloads, t,
                                      LocalEntry(MapGet(activeDownloads, t), size, LocalUrl(t)))
                        /\ emitted' = Emit(t, LocalCompleteEvent(t, size,
                                                 "Google Drive not configured"))
                        /\ fin' = [fin EXCEPT ![t] = "done"]
    /\ UNCHANGED <<driveVars, connected, files, unlinks, pc, closureVars,
                   downloadedBytes, lastProgress, getLength, src, ioPending>>

\* uploadToGoogleDrive: files.create resolved, permissions.create is awaited
UploadCreated(t) ==
    /\ fin[t] = "create"
    /\ fin' = [fin EXCEPT ![t] = "permission"]
    /\ UNCHANGED <<driveVars, connected, activeDownloads, files, unlinks, pc,
                   closureVars, streamVars, finalSize, emitted>>

\* uploadToGoogleDrive resolved: the entry gets the direct link, download-complete
\* is emitted with source google_drive, then deleteLocalFile unlinks the file
UploadDone(t) ==
    /\ fin[t] = "permission"
    /\ activeDownloads' =
           MapSet(activeDownloads, t,
                  DriveEntry(MapGet(activeDownloads, t), finalSize[t], DriveFileId(t)))
    /\ emitted' = Emit(t, DriveCompleteEvent(t, finalSize[t], DriveFileId(t)))
    /\ unlinks' = unlinks \cup {filePath(t)}
    /\ fin' = [fin EXCEPT ![t] = "done"]
    /\ UNCHANGED <<driveVars, connected, files, pc, closureVars, streamVars, finalSize>>

\* the fallback with the cleanup of the success path run as well
UploadFallback_Deletes(t) ==
    /\ activeDownloads' =
           MapSet(activeDownloads, t,
                  LocalEntry(MapGet(activeDownloads, t), finalSize[t], LocalUrl(t)))
    /\ emitted' = Emit(t, LocalCompleteEvent(t, finalSize[t],
                             "Google Drive upload failed, using local link"))
    /\ unlinks' = unlinks \cup {filePath(t)}
    /\ fin' = [fin EXCEPT ![t] = "done"]
    /\ UNCHANGED <<driveVars, connected, files, pc, closureVars, streamVars, finalSize>>

\* catch (uploadError): fall back to the local link, with a warning
UploadFallback(t) ==
    /\ activeDownloads' =
           MapSet(activeDownloads, t,
                  LocalEntry(MapGet(activeDownloads, t), finalSize[t], LocalUrl(t)))
    /\ emitted' = Emit(t, LocalCompleteEvent(t, finalSize[t],
                             "Google Drive upload failed, using local link"))
    /\ fin' = [fin EXCEPT ![t] = "done"]
    /\ UNCHANGED <<driveVars, connected, files, unlinks, pc, closureVars, streamVars,
                   finalSize>>

\* files.create of uploadToGoogleDrive rejected
UploadCreateFail(t) ==
    /\ fin[t] = "create"
    /\ UploadFallback(t)

\* permissions.create of uploadToGoogleDrive rejected
UploadPermissionFail(t) ==
    /\ fin[t] = "permission"
    /\ UploadFallback(t)

(* ---------------------------- specification ---------------------------- *)
ChunkLengths == 1..MaxChunk

\* the steps of transfer t, with sockets S, request URLs U, uuid draws K, probe
\* responses HH, GET responses GH, chunk lengths L and byte counts B
TransferStepOf(t, S, U, K, HH, GH, L, B) ==
    \/ \E s \in S, u \in U : StartDownload(t, s, u)
    \/ \E h \in HH, tok \in K, tok2 \in K : HeadOk(t, h, tok, tok2)
    \/ \E tok \in K, tok2 \in K : HeadFail(t, tok, tok2)
    \/ \E msg \in ErrorMessages : GetFail(t, msg)
    \/ \E h \in GH, tok \in K : GetOk(t, h, tok)
    \/ \E n \in L, full \in BOOLEAN : DataWithin(t, n, full, B)
    \/ IoDone(t)
    \/ SrcEnd(t)
    \/ SrcError(t)
    \/ WriteError(t)
    \/ Finish(t)
    \/ UploadCreated(t)
    \/ UploadDone(t)
    \/ UploadCreateFail(t)
    \/ UploadPermissionFail(t)

\* the steps of transfer t, with sockets S, request URLs U, uuid draws K, probe
\* responses HH and GET responses GH
TransferStepWith(t, S, U, K, HH, GH) ==
    TransferStepOf(t, S, U, K, HH, GH, ChunkLengths, 0..MaxBytes)

\* the steps of transfer t, with sockets S, request URLs U and uuid draws K
TransferStep(t, S, U, K) == TransferStepWith(t, S, U, K, HeadHeaders, GetHeaders)

NextOf(T, S, U, K) ==
    \/ InitStep
    \/ \E s \in S : Disconnect(s)
    \/ \E p \in unlinks : UnlinkDone(p)
    \/ \E t \in T : TransferStep(t, S, U, K)

\* one client channel and one transfer, every outcome of every step
Next == NextOf({1}, {"s1"}, Urls, {Token(1)})

Spec == Init /\ [][Next]_vars

\* one transfer, with the URLs and the Content-Disposition headers that
\* exercise the Filename Resolver and the construction of the storage path
NamesNext ==
    \/ InitStep
    \/ \E s \in {"s1"} : Disconnect(s)
    \/ \E p \in unlinks : UnlinkDone(p)
    \/ TransferStepWith(1, {"s1"}, NameUrls, {Token(1)}, NameHeaders, NameHeaders)

SpecNames == Init /\ [][NamesNext]_vars

\* the responses two concurrent transfers of one URL get: a body of one byte
PairHeaders == [cd : {<<>>, CdTraversal}, cl : {1}]

\* the steps of transfer t of two concurrent transfers for the same URL, each
\* on either channel; the uuids drawn for different transfers differ
PairStep(t) ==
    TransferStepWith(t, AllSockets, {UrlFile}, {Token(t)}, PairHeaders, PairHeaders)

PairNext ==
    \/ InitStep
    \/ \E s \in AllSockets : Disconnect(s)
    \/ \E p \in unlinks : UnlinkDone(p)
    \/ \E t \in AllTransfers : PairStep(t)

SpecPair == Init /\ [][PairNext]_vars

\* a large body arrives in single bytes and in chunks of all but one or two
\* of its bytes
LargeChunks == {1, LargeSize - 2, LargeSize - 1}

\* the byte counts of a large body after a chunk: its first and its last bytes
LargeCounts == 1..MaxBytes \cup (LargeSize - 2)..LargeSize

\* one transfer of a body of up to LargeSize bytes that the probe, if it
\* succeeds, announces with that size and the GET response does not announce
LargeStep(t) ==
    TransferStepOf(t, {"s1"}, {UrlFile}, {Token(1)}, [cd : {<<>>}, cl : {LargeSize}],
                   [cd : {<<>>}, cl : {0}], LargeChunks, LargeCounts)

LargeNext ==
    \/ InitStep
    \/ \E s \in {"s1"} : Disconnect(s)
    \/ \E p \in unlinks : UnlinkDone(p)
    \/ LargeStep(1)

SpecLarge == Init /\ [][LargeNext]_vars

\* the callback of an fs.unlink that was issued is eventually called
UnlinkFairness == WF_vars(\E p \in unlinks : UnlinkDone(p))

\* the server with its file system operations completing
SpecCleanup == Spec /\ UnlinkFairness


(* --------------------------- GET /api/downloads ------------------------ *)
\* the snapshot the endpoint answers: one {id: key, ...value} per Map entry
ApiDownloads == {Spread([id |-> k], activeDownloads[k]) : k \in DOMAIN activeDownloads}

(* ------------------------ GET /downloads/:filename --------------------- *)
\* a JS number that may be NaN
NaN == [nan |-> TRUE]

Num(n) == [nan |-> FALSE, n |-> n]

Digits == <<"0", "1", "2", "3", "4", "5", "6", "7", "8", "9">>

IsDigit(c) == \E d \in 1..Len(Digits) : Digits[d] = c

DigitValue(c) == (CHOOSE d \in 1..Len(Digits) : Digits[d] = c) - 1

RECURSIVE DigitPrefix(_)
DigitPrefix(s) ==
    IF s = <<>> \/ ~IsDigit(Head(s)) THEN <<>> ELSE <<Head(s)>> \o DigitPrefix(Tail(s))

RECURSIVE DecimalValue(_)
DecimalValue(d) ==
    IF d = <<>> THEN 0
    ELSE Len(Digits) * DecimalValue(SubSeq(d, 1, Len(d) - 1)) + DigitValue(d[Len(d)])

RECURSIVE SkipSpaces(_)
SkipSpaces(s) == IF s # <<>> /\ Head(s) = " " THEN SkipSpaces(Tail(s)) ELSE s

\* parseInt(s, 10): leading blanks, an optional sign, the longest digit prefix
parseInt(s) ==
    LET r == SkipSpaces(s)
        signed == r # <<>> /\ Head(r) \in {"+", "-"}
        d == DigitPrefix(IF signed THEN Tail(r) ELSE r)
    IN  IF d = <<>> THEN NaN
        ELSE IF signed /\ Head(r) = "-" THEN Num(0 - DecimalValue(d))
        ELSE Num(DecimalValue(d))

\* String(n) of an integer
RECURSIVE Decimal(_)
Decimal(n) ==
    IF n < 0 THEN <<"-">> \o Decimal(0 - n)
    ELSE IF n < Len(Digits) THEN <<Digits[n + 1]>>
    ELSE Decimal(n \div Len(Digits)) \o <<Digits[(n % Len(Digits)) + 1]>>

\* `${x}` of a number
Fmt(x) == IF x.nan THEN <<"N", "a", "N">> ELSE Decimal(x.n)

BYTES_EQ == <<"b", "y", "t", "e", "s", "=">>

BYTES_SP == <<"b", "y", "t", "e", "s", " ">>

\* s.replace(/bytes=/, ""): the first occurrence is removed
RECURSIVE RemoveBytesEq(_)
RemoveBytesEq(s) ==
    IF s = <<>> THEN <<>>
    ELSE IF StartsWith(s, BYTES_EQ) THEN SubSeq(s, Len(BYTES_EQ) + 1, Len(s))
    ELSE <<Head(s)>> \o RemoveBytesEq(Tail(s))

\* s.split("-")
RECURSIVE SplitDash(_)
SplitDash(s) ==
    LET i == ScanTo(s, 1, {"-"})
    IN  IF i > Len(s) THEN <<s>>
        ELSE <<SubSeq(s, 1, i - 1)>> \o SplitDash(SubSeq(s, i + 1, Len(s)))

\* (end - start) with the unit left out
chunksize_Exclusive(start, end) ==
    IF start.nan \/ end.nan THEN NaN ELSE Num(end.n - start.n)

\* (end - start) + 1
chunksize(start, end) ==
    IF start.nan \/ end.nan THEN NaN ELSE Num((end.n - start.n) + 1)

\* `bytes ${start}-${end}/${fileSize}`
ContentRange(start, end, size) ==
    BYTES_SP \o Fmt(start) \o <<"-">> \o Fmt(end) \o <<"/">> \o Decimal(size)

\* fs.createReadStream(filePath, {start, end}) accepts its options: both are
\* integers >= 0 and start <= end; otherwise it throws a RangeError
ReadOptionsValid(start, end) ==
    /\ ~start.nan /\ ~end.nan
    /\ start.n >= 0 /\ end.n >= 0
    /\ start.n <= end.n

\* the number of bytes the read stream with options read delivers from a file of
\* size bytes: those from read.start up to read.end or the end of the file
BytesRead(size, read) ==
    LET last == IF read.end.n < size - 1 THEN read.end.n ELSE size - 1
    IN  IF read.start.n > last THEN 0 ELSE last - read.start.n + 1

\* the handler on the file system fs, for the route parameter name (which
\* names a file or nothing, not a directory) and the Range header range (<<>>
\* when the request has none): status and headers of the response and the
\* options of the read stream piped into it.  A RangeError thrown by
\* fs.createReadStream leaves the handler before anything is sent and the
\* framework answers 500.
ServeFrom(fs, name, range) ==
    LET path == pathJoin(downloadsDir, name)
    IN  IF path \notin DOMAIN fs
        THEN [status |-> 404, body |-> "File not found"]
        ELSE LET size == fs[path]
                 parts == SplitDash(RemoveBytesEq(range))
                 start == parseInt(parts[1])
                 end == IF Len(parts) >= 2 /\ parts[2] # <<>>
                        THEN parseInt(parts[2]) ELSE Num(size - 1)
             IN  IF range = <<>>
                 THEN [status |-> 200, contentLength |-> Num(size), read |-> <<>>]
                 ELSE IF ~ReadOptionsValid(start, end)
                 THEN [status |-> 500, body |-> "RangeError"]
                 ELSE [status |-> 206,
                       contentRange |-> ContentRange(start, end, size),
                       contentLength |-> chunksize(start, end),
                       read |-> [start |-> start, end |-> end]]

\* the response of the endpoint in the current state
ServeDownload(name, range) == ServeFrom(files, name, range)

(* ----------------------- the event log of a transfer ------------------- *)
Indices(t) == 1..Len(emitted[t])

TypeAt(t, i) == emitted[t][i].type

Terminal == {"download-complete", "download-error"}

EventsOf(t, types) == {i \in Indices(t) : TypeAt(t, i) \in types}

HasEvent(t, type) == EventsOf(t, {type}) # {}

\* the start-download request of t was accepted
Accepted(t) == pc[t] # "idle"

\* no code of the program can run for transfer t any more
Settled(t) ==
    /\ pc[t] \in {"caught", "registered"}
    /\ src[t] \in {"none", "stopped", "ended", "errored"}
    /\ ~ioPending[t]
    /\ writer[t] # "ending"
    /\ fin[t] \notin {"create", "permission"}

(* -------------------------------- C1 ----------------------------------- *)
\* C1: for every transfer id, download-progress and download-complete are
\* emitted only after its download-started, and no event carrying the id follows
\* its download-complete or its download-error.
C1_EventOrder ==
    \A t \in AllTransfers : \A i \in Indices(t) :
        /\ TypeAt(t, i) \in {"download-progress", "download-complete"}
               => \E j \in 1..(i - 1) : TypeAt(t, j) = "download-started"
        /\ TypeAt(t, i) \in Terminal => i = Len(emitted[t])

(* -------------------------------- C2 ----------------------------------- *)
\* C2: every accepted start-download request produces exactly one terminal
\* event for its id: never more than one, and one by the time every step of
\* the transfer has finished or failed.
C2_OneTerminalEvent ==
    \A t \in AllTransfers :
        /\ Cardinality(EventsOf(t, Terminal)) <= 1
        /\ Accepted(t) /\ Settled(t) => Cardinality(EventsOf(t, Terminal)) = 1

(* -------------------------------- C3 ----------------------------------- *)
\* the fetch of t failed: the GET was rejected, or the body stream failed
FetchFailed(t) == pc[t] = "caught" \/ src[t] = "errored"

\* C3: any fetch failure of a transfer, also one while the body streams,
\* results in a download-error event, the transfer is then not in the active
\* set and no partial file of it is in the storage directory.
C3_FetchFailureSurfaced ==
    \A t \in AllTransfers :
        FetchFailed(t) =>
            /\ HasEvent(t, "download-error")
            /\ t \notin DOMAIN activeDownloads
            /\ filePath(t) \notin DOMAIN files \/ filePath(t) \in unlinks

(* -------------------------------- C4 ----------------------------------- *)
\* C4: once download-error was emitted for an id, neither the registry nor the
\* /api/downloads snapshot holds an entry for it, in that state and ever after.
C4_NoEntryAfterError ==
    \A t \in AllTransfers :
        HasEvent(t, "download-error") =>
            /\ t \notin DOMAIN activeDownloads
            /\ \A e \in ApiDownloads : e.id # t

(* -------------------------------- C5 ----------------------------------- *)
Downloading(t) == t \in DOMAIN activeDownloads /\ activeDownloads[t].status = "downloading"

\* the channel of transfer t disconnects in this step
ChannelDrops(t) == connected[sock[t]] /\ ~connected'[sock[t]]

\* C5: when the channel of a transfer with status downloading disconnects, the
\* engine stops streaming it, closes the destination file, discards the partial
\* file and removes it from the active set, as on a write error.
C5_DisconnectAborts ==
    [][\A t \in AllTransfers :
          ChannelDrops(t) /\ Downloading(t) =>
              /\ src'[t] \notin {"flowing", "paused"}
              /\ writer'[t] \notin {"open", "ending"}
              /\ filePath(t) \notin DOMAIN files' \/ filePath(t) \in unlinks'
              /\ t \notin DOMAIN activeDownloads']_vars


(* -------------------------------- C6 ----------------------------------- *)
Completed(t) == t \in DOMAIN activeDownloads /\ activeDownloads[t].status = "completed"

C6_UrlIffCompleted ==
    \A t \in DOMAIN activeDownloads :
        /\ activeDownloads[t].status \in {"downloading", "completed"}
        /\ "downloadUrl" \in DOMAIN activeDownloads[t] <=> activeDownloads[t].status = "completed"

C6_StatusStep ==
    \A t \in AllTransfers :
        /\ Downloading(t) /\ t \in DOMAIN activeDownloads'
               => activeDownloads'[t].status \in {"downloading", "completed"}
        /\ Completed(t)
               => /\ t \in DOMAIN activeDownloads'
                  /\ activeDownloads'[t].status = "completed"
                  /\ activeDownloads'[t].downloadUrl = activeDownloads[t].downloadUrl
                  /\ activeDownloads'[t].downloadedBytes = activeDownloads[t].downloadedBytes

\* C6: a registry entry has a downloadUrl if and only if its status is
\* completed; its status changes only from downloading to completed, and once
\* completed its status, downloadUrl and downloadedBytes never change again.
C6_EntryLifecycle == []C6_UrlIffCompleted /\ [][C6_StatusStep]_vars

\* a transfer completed by an upload, its entry holding the Drive link
C6_Witness ==
    \E t \in AllTransfers :
        Completed(t) /\ activeDownloads[t].downloadUrl = DirectLink(DriveFileId(t))

(* -------------------------------- C7 ----------------------------------- *)
UploadFailedWarning == "Google Drive upload failed, using local link"

\* the publish step of t has failed: the fallback completion event is in its log
PublishFailed(t) ==
    \E i \in Indices(t) :
        /\ TypeAt(t, i) = "download-complete"
        /\ "warning" \in DOMAIN emitted[t][i]
        /\ emitted[t][i].warning = UploadFailedWarning

\* what holds of a transfer whose publish step failed
C7_FallbackState(t) ==
    /\ Completed(t)
    /\ activeDownloads[t].downloadUrl = LocalUrl(t)
    /\ Cardinality(EventsOf(t, {"download-complete"})) = 1
    /\ \A i \in EventsOf(t, {"download-complete"}) :
           /\ emitted[t][i].source = "local"
           /\ "warning" \in DOMAIN emitted[t][i]
           /\ emitted[t][i].warning # ""
           /\ emitted[t][i].downloadUrl = LocalUrl(t)
    /\ ~HasEvent(t, "download-error")
    /\ filePath(t) \in DOMAIN files
    /\ filePath(t) \notin unlinks

\* the upload of t, or making the uploaded object public, fails in this step
UploadFails(t) == UploadCreateFail(t) \/ UploadPermissionFail(t)

\* C7: with the remote backend initialised, a failed upload (or a failed
\* permission step) does not fail the transfer: the entry becomes completed
\* with the local URL, exactly one download-complete is emitted, with source
\* local and a warning, no download-error is emitted and the file is kept.
C7_PublishFailureFallsBack ==
    /\ [][\A t \in AllTransfers : UploadFails(t) => PublishFailed(t)' /\ C7_FallbackState(t)']_vars
    /\ [](\A t \in AllTransfers : PublishFailed(t) => C7_FallbackState(t))

\* a transfer whose upload failed with the backend initialised
C7_Witness ==
    \E t \in AllTransfers : PublishFailed(t) /\ fin[t] = "done" /\ DriveReady


(* -------------------------------- C8 ----------------------------------- *)
\* while the probe or the GET is awaited nothing was emitted or registered, and
\* at the GET stage both outcomes of the GET are open
C8_ProbeStageQuiet ==
    \A t \in AllTransfers :
        /\ pc[t] \in {"head", "get"} => emitted[t] = <<>> /\ t \notin DOMAIN activeDownloads
        /\ pc[t] = "get" => ENABLED (\E msg \in ErrorMessages : GetFail(t, msg))
        /\ pc[t] = "get" /\ url[t].parses
               => ENABLED (\E h \in GetHeaders, tok \in Tokens : GetOk(t, h, tok))

C8_ProbeStep ==
    \A t \in AllTransfers :
        /\ pc[t] = "head" => pc'[t] \in {"head", "get"} /\ emitted'[t] = <<>>
        /\ \A tok \in Tokens, tok2 \in Tokens :
               HeadFail(t, tok, tok2) =>
                   /\ pc'[t] = "get"
                   /\ fileSize'[t] = 0
                   /\ filename'[t] = getFilename(url[t], NoHeaders, tok)

\* C8: a failure of the HEAD probe emits no download-error and does not end
\* the transfer: the engine goes on to the GET with expected size 0 and the name
\* resolved without headers, and every outcome of the GET is still open.
C8_ProbeFailureNonFatal == []C8_ProbeStageQuiet /\ [][C8_ProbeStep]_vars

\* the GET is awaited after a probe that must have failed and the size is unknown
C8_Witness ==
    \E t \in AllTransfers :
        pc[t] = "get" /\ ~url[t].parses /\ fileSize[t] = 0
            /\ StartsWith(filename[t], DEFAULT_FILENAME_PREFIX)

(* -------------------------------- C9 ----------------------------------- *)
ProgressBefore(t, i) == {j \in 1..(i - 1) : TypeAt(t, j) = "download-progress"}

LastOf(S) == CHOOSE j \in S : \A k \in S : k <= j

\* C9: for every transfer that ends with download-complete and whose
\* download-started reported a known, nonzero fileSize, a download-progress
\* event precedes download-complete and the last one reports progress = 100.
C9_FinalProgressIs100 ==
    \A t \in AllTransfers : \A i \in EventsOf(t, {"download-complete"}) :
        (\E j \in 1..(i - 1) :
             TypeAt(t, j) = "download-started" /\ emitted[t][j].fileSize > 0)
        => /\ ProgressBefore(t, i) # {}
           /\ emitted[t][LastOf(ProgressBefore(t, i))].progress = 100

(* -------------------------------- C10 ---------------------------------- *)
C10_ProgressBytes ==
    \A t \in AllTransfers : \A i \in Indices(t), j \in Indices(t) :
        i < j /\ TypeAt(t, i) = "download-progress" /\ TypeAt(t, j) = "download-progress"
            => emitted[t][i].downloadedBytes <= emitted[t][j].downloadedBytes

C10_EntryBytesStep ==
    \A t \in AllTransfers :
        Downloading(t) /\ t \in DOMAIN activeDownloads'
                       /\ activeDownloads'[t].status = "downloading"
            => activeDownloads'[t].downloadedBytes >= activeDownloads[t].downloadedBytes

\* C10: the downloadedBytes of the successive download-progress events of a
\* transfer, the publishing event included, never decrease, and neither does
\* the downloadedBytes of its registry entry while its status is downloading.
C10_BytesMonotone == []C10_ProgressBytes /\ [][C10_EntryBytesStep]_vars

\* two data progress events, then the publishing progress event
C10_Witness ==
    \E t \in AllTransfers :
        /\ Len(emitted[t]) >= 4
        /\ TypeAt(t, 2) = "download-progress" /\ TypeAt(t, 3) = "download-progress"
        /\ TypeAt(t, 4) = "download-progress"
        /\ emitted[t][4].speed = "Uploading to Google Drive..."
        /\ Downloading(t) /\ activeDownloads[t].downloadedBytes >= 2

(* -------------------------------- C11 ---------------------------------- *)
\* the sizes a completed transfer reports are the number of bytes received
C11_CompletedSizes ==
    \A t \in AllTransfers :
        /\ Completed(t) => activeDownloads[t].downloadedBytes = downloadedBytes[t]
        /\ \A i \in EventsOf(t, {"download-complete"}) :
               /\ emitted[t][i].fileSize = downloadedBytes[t]
               /\ Completed(t)
        /\ fin[t] \in {"create", "permission", "done"}
               => /\ finalSize[t] = downloadedBytes[t]
                  /\ filePath(t) \in DOMAIN files => files[filePath(t)] = downloadedBytes[t]

\* the byte count is the sum of the chunk lengths, and the finish handler finds
\* a file of that many bytes
C11_SizeStep ==
    \A t \in AllTransfers :
        /\ \A n \in ChunkLengths, full \in BOOLEAN :
               Data(t, n, full) => downloadedBytes'[t] = downloadedBytes[t] + n
        /\ Finish(t) => /\ fin'[t] # "threw"
                        /\ files[filePath(t)] = downloadedBytes[t]
        /\ fin[t] # "none" => downloadedBytes'[t] = downloadedBytes[t]

\* C11: for every completed transfer, the downloadedBytes of its registry entry
\* and the fileSize of its download-complete event both equal the byte length
\* of the file written (the sum of the lengths of the chunks received),
\* whatever content length the probe or the GET response announced.
C11_SizesAreBytesWritten == []C11_CompletedSizes /\ [][C11_SizeStep]_vars

\* a completed transfer that received fewer bytes than the probe announced
C11_Witness ==
    \E t \in AllTransfers :
        /\ Completed(t) /\ HasEvent(t, "download-complete")
        /\ activeDownloads[t].fileSize > activeDownloads[t].downloadedBytes
        /\ activeDownloads[t].downloadedBytes > 0

(* -------------------------------- C12 ---------------------------------- *)
\* C12: the progress of every download-progress event is -1 or an integer in
\* 0..100, and it is -1 exactly when the expected fileSize of the transfer is
\* unknown (0), also when the source delivers more bytes than were announced.
C12_ProgressRange ==
    \A t \in AllTransfers : \A i \in EventsOf(t, {"download-progress"}) :
        /\ emitted[t][i].progress \in {-1} \cup 0..100
        /\ emitted[t][i].speed = "formatSpeed"
               => (emitted[t][i].progress = -1 <=> emitted[t][i].fileSize = 0)

(* -------------------------------- C13 ---------------------------------- *)
\* a value with one pair of surrounding quotes removed
Unquote(v) ==
    IF Len(v) >= 2 /\ v[1] \in QUOTES /\ v[Len(v)] = v[1] THEN SubSeq(v, 2, Len(v) - 1)
    ELSE v

\* the filename parameter of a Content-Disposition header, <<>> if there is none
FilenameParameter(h) == MatchFrom(h.cd, 1).g1

\* the last path segment of a URL that parses: what follows the last separator
LastSegment(u) == AfterLastSlash(u.pathname)

\* the name the three tiers give, in priority order
TieredName(u, h, tok) ==
    IF FilenameParameter(h) # <<>> THEN Unquote(FilenameParameter(h))
    ELSE IF u.parses /\ LastSegment(u) # <<>> /\ DecodeOk(LastSegment(u))
    THEN decodeURIComponent(LastSegment(u))
    ELSE DEFAULT_FILENAME_PREFIX \o tok

C13_ResolverStep ==
    \A t \in AllTransfers, tok \in Tokens, tok2 \in Tokens :
        /\ \A h \in NameHeaders :
               HeadOk(t, h, tok, tok2) => filename'[t] = TieredName(url[t], h, tok)
        /\ HeadFail(t, tok, tok2) => filename'[t] = TieredName(url[t], NoHeaders, tok)

\* C13: getFilename(url, headers) never throws and resolves in strict priority
\* order: the filename parameter of the content-disposition header with its
\* surrounding quotes stripped; otherwise the percent-decoded last path segment
\* of a URL that parses, if non-empty; otherwise (no header, empty segment,
\* malformed URL or malformed percent-encoding) download_ and 8 hex characters.
C13_ResolverPriority == [][C13_ResolverStep]_vars

(* -------------------------------- C14 ---------------------------------- *)
\* a filesystem-safe base name
SafeBaseName(n) ==
    /\ n # <<>>
    /\ \A i \in 1..Len(n) : n[i] # "/"
    /\ n \notin {<<".">>, <<".", ".">>}

\* the name of transfer t is resolved and its storage path is built
PathBuilt(t) == pc[t] \in {"get", "registered", "caught"}

\* C14: for every URL and every set of response headers the resolved name is a
\* filesystem-safe base name (non-empty, no path separator, no parent-directory
\* component), so that the storage path built from it is the entry
\* <token>_<name> directly inside the downloads directory.
C14_SafeStoragePath ==
    \A t \in AllTransfers :
        PathBuilt(t) =>
            /\ SafeBaseName(filename[t])
            /\ filePath(t) = Append(downloadsDir, uniqueFilename[t])
            /\ \A p \in DOMAIN files : Len(p) = 2 /\ p[1] = DOWNLOADS

(* -------------------------------- C15 ---------------------------------- *)
\* sub occurs in s
Contains(s, sub) ==
    \E i \in 1..(Len(s) - Len(sub) + 1) : SubSeq(s, i, i + Len(sub) - 1) = sub

\* the filename parameter of CdReport
ReportName == <<"r", ".", "p", "d", "f">>

StartedEvents(t) == EventsOf(t, {"download-started"})

C15_GetStep ==
    \A t \in AllTransfers, tok \in Tokens :
        \A h \in {g \in GetHeaders : g.cd = CdReport} :
            GetOk(t, h, tok) =>
                /\ Cardinality(StartedEvents(t)') = 1
                /\ \A i \in StartedEvents(t)' : Contains(emitted'[t][i].filename, ReportName)

\* C15: when the source serves its payload with a Content-Disposition header
\* carrying the filename r.pdf, the single download-started event of the
\* transfer reports a filename containing it: when the probe failed or returned
\* no such header the name is resolved from the headers of the GET response,
\* for every source URL, with or without a last path segment.
C15_NameFromPayloadHeader == [][C15_GetStep]_vars

(* -------------------------------- C16 ---------------------------------- *)
\* C16: the file of a transfer is stored as <8-hex-token>_<resolved-filename>,
\* the resolved filename being the final one (reported by download-started and
\* download-complete and stored in the registry entry), and the local
\* downloadUrl is /downloads/ followed by that stored name.
C16_StoredName ==
    \A t \in AllTransfers :
        pc[t] = "registered" =>
            /\ \E tok \in Tokens : uniqueFilename[t] = UniqueName(tok, filename[t])
            /\ \A i \in Indices(t) :
                   /\ TypeAt(t, i) \in {"download-started", "download-complete"}
                          => emitted[t][i].filename = filename[t]
                   /\ TypeAt(t, i) = "download-complete" /\ emitted[t][i].source = "local"
                          => \E tok \in Tokens :
                                 emitted[t][i].downloadUrl
                                     = DOWNLOADS_ROUTE \o UniqueName(tok, emitted[t][i].filename)
            /\ t \in DOMAIN activeDownloads
                   => /\ activeDownloads[t].filename = filename[t]
                      /\ \E tok \in Tokens :
                             activeDownloads[t].filePath
                                 = Append(downloadsDir, UniqueName(tok, filename[t]))

(* -------------------------------- C17 ---------------------------------- *)
\* C17: any two transfers, also two concurrent requests for the same URL or
\* the same resolved filename, have distinct ids and distinct storage paths, so
\* that no two transfers write to, clean up or serve the same file.
C17_DistinctPaths ==
    \A t1 \in AllTransfers, t2 \in AllTransfers :
        t1 # t2 /\ PathBuilt(t1) /\ PathBuilt(t2) =>
            /\ filePath(t1) # filePath(t2)
            /\ \A i \in Indices(t1), j \in Indices(t2) :
                   emitted[t1][i].downloadId # emitted[t2][j].downloadId

(* -------------------------------- C18 ---------------------------------- *)
\* C18: the transfer id generated for a start-download request is emitted to
\* the client before the network fetch (probe or GET) of the request begins.
C18_IdBeforeFetch ==
    \A t \in AllTransfers :
        pc[t] \in {"head", "get"} => \E i \in Indices(t) : emitted[t][i].downloadId = t

(* -------------------------------- C19 ---------------------------------- *)
\* the Range header bytes=start-end, or bytes=start- when end is <<>>
RangeHeader(start, end) ==
    BYTES_EQ \o Decimal(start) \o <<"-">> \o (IF end = <<>> THEN <<>> ELSE Decimal(end[1]))

\* a name no transfer stores under
MissingName == <<"n", "o", "n", "e">>

\* the names requested: the stored name of every transfer, and a missing one
RequestNames == {uniqueFilename[t] : t \in {x \in AllTransfers : PathBuilt(x)}} \cup {MissingName}

RangeEnds == {<<>>} \cup {<<e>> : e \in 0..MaxBytes}

\* the responses to the requests on the file system fs
C19_Responses(fs, names, starts, ends) ==
    \A name \in names :
        LET path == Append(downloadsDir, name)
        IN  IF path \notin DOMAIN fs
            THEN /\ ServeFrom(fs, name, <<>>).status = 404
                 /\ \A a \in starts : ServeFrom(fs, name, RangeHeader(a, <<>>)).status = 404
            ELSE /\ ServeFrom(fs, name, <<>>)
                        = [status |-> 200, contentLength |-> Num(fs[path]), read |-> <<>>]
                 /\ \A a \in starts, e \in ends :
                        LET last == IF e = <<>> THEN fs[path] - 1 ELSE e[1]
                        IN  0 <= a /\ a <= last /\ last < fs[path]
                                => ServeFrom(fs, name, RangeHeader(a, e))
                                       = [status |-> 206,
                                          contentRange |->
                                              BYTES_SP \o Decimal(a) \o <<"-">> \o Decimal(last)
                                                  \o <<"/">> \o Decimal(fs[path]),
                                          contentLength |-> Num(last - a + 1),
                                          read |-> [start |-> Num(a), end |-> Num(last)]]

\* a file of 1000 bytes stored under the name f
ThousandBytes == [p \in {Append(downloadsDir, <<"f">>)} |-> 1000]

\* the responses for a file of 1000 bytes, the request bytes=0-99 among them
C19_ThousandBytes ==
    /\ C19_Responses(ThousandBytes, {<<"f">>, MissingName}, {99}, {<<>>, <<999>>})
    /\ ServeFrom(ThousandBytes, <<"f">>, RangeHeader(0, <<99>>))
           = [status |-> 206,
              contentRange |-> BYTES_SP \o <<"0", "-", "9", "9", "/", "1", "0", "0", "0">>,
              contentLength |-> Num(100),
              read |-> [start |-> Num(0), end |-> Num(99)]]

\* C19: GET /downloads/:filename answers 404 when the stored file does not
\* exist; 200 with Content-Length = the file size when it exists and the
\* request has no Range header; and for a Range header bytes=start-end (end
\* optional, then size-1) with 0 <= start <= end < size, 206 with Content-Range
\* 'bytes start-end/size' and Content-Length = end - start + 1 (bytes=0-99 of a
\* file of 1000 bytes: 206, 'bytes 0-99/1000', 100).
C19_RangeResponses ==
    /\ C19_Responses(files, RequestNames, 0..MaxBytes, RangeEnds)
    /\ C19_ThousandBytes

\* a stored file of at least two bytes, served whole, in part and from an offset
C19_Witness ==
    \E t \in AllTransfers :
        /\ Completed(t) /\ filePath(t) \in DOMAIN files /\ files[filePath(t)] >= 2
        /\ ServeDownload(uniqueFilename[t], <<>>).status = 200
        /\ ServeDownload(uniqueFilename[t], RangeHeader(1, <<1>>)).status = 206
        /\ ServeDownload(uniqueFilename[t], RangeHeader(1, <<>>)).contentLength
               = Num(files[filePath(t)] - 1)
        /\ ServeDownload(MissingName, <<>>).status = 404

(* -------------------------------- C20 ---------------------------------- *)
\* the initialisation of the remote backend completed successfully
InitSucceeded == initPc = "done" /\ driveClient /\ driveFolderId

\* the initialisation of the remote backend failed
InitFailed == initPc = "done" /\ ~driveFolderId

\* the remote upload of transfer t was called and is in progress
Uploading(t) == fin[t] \in {"create", "permission"}

\* the remote backend is in use only after a successful initialisation
C20_RemoteOnlyWhenReady ==
    /\ DriveReady <=> InitSucceeded
    /\ \A t \in AllTransfers :
           /\ Uploading(t) => InitSucceeded
           /\ \A i \in EventsOf(t, {"download-complete"}) :
                  emitted[t][i].source = "google_drive" => InitSucceeded

C20_BackendStep ==
    /\ InitFailed => InitFailed'
    /\ \A t \in AllTransfers :
           Finish(t) /\ ~InitSucceeded =>
               /\ fin'[t] = "done"
               /\ Completed(t)'
               /\ activeDownloads'[t].downloadUrl = LocalUrl(t)
               /\ emitted'[t][Len(emitted'[t])].type = "download-complete"
               /\ emitted'[t][Len(emitted'[t])].source = "local"

\* C20: the remote backend is used for a transfer only if its initialisation
\* has completed successfully (client handle and folder id both set): after a
\* failed initialisation the process keeps running and every transfer, forever
\* after, completes through the local backend with source local, and a transfer
\* that finishes while the initialisation is in progress is published locally
\* as well, without a call of the remote upload.
C20_LocalUnlessInitialised == []C20_RemoteOnlyWhenReady /\ [][C20_BackendStep]_vars

\* a transfer published locally while the folder lookup of the initialisation
\* was still awaited, the client handle already set
C20_Witness ==
    \E t \in AllTransfers :
        /\ initPc = "folder" /\ driveClient
        /\ fin[t] = "done" /\ Completed(t)
        /\ emitted[t][Len(emitted[t])].source = "local"

(* -------------------------------- C21 ---------------------------------- *)
\* what the registry and the closures hold for transfer t
OwnState(t) ==
    <<MapGet(activeDownloads, t), t \in DOMAIN activeDownloads, downloadedBytes[t],
      lastProgress[t], emitted[t]>>

C21_FrameStep ==
    \A t \in AllTransfers :
        PairStep(t) => \A o \in AllTransfers \ {t} : OwnState(o)' = OwnState(o)

\* C21: under every interleaving of the callbacks of several concurrent
\* transfers, on one channel or on several, each step of a transfer (register,
\* data chunk, finish, publish result, write error, fetch error) changes or
\* removes only the registry entry keyed by its own id and leaves the entry,
\* the byte counter and the throttle state of every other transfer unchanged.
C21_OwnEntryOnly == [][C21_FrameStep]_vars

\* two transfers on different channels: one failed with a write error and left
\* the registry while the other, registered at the same time, completed
C21_Witness ==
    /\ sock[1] # sock[2]
    /\ HasEvent(1, "download-error") /\ 1 \notin DOMAIN activeDownloads
    /\ downloadedBytes[1] > 0
    /\ Completed(2) /\ activeDownloads[2].downloadedBytes > 0

(* -------------------------------- C22 ---------------------------------- *)
\* the download-progress events of t that its data handler emitted
DataEvents(t) ==
    {i \in EventsOf(t, {"download-progress"}) : emitted[t][i].speed = "formatSpeed"}

\* the percent of the last progress event of the data handler, initially 0
LastEmittedPercent(t) ==
    IF DataEvents(t) = {} THEN 0 ELSE emitted[t][LastOf(DataEvents(t))].progress

\* a data chunk of t arrives in this step
ChunkArrives(t) == pc[t] = "registered" /\ downloadedBytes'[t] > downloadedBytes[t]

C22_ChunkStep ==
    \A t \in AllTransfers :
        ChunkArrives(t) =>
            LET percent == Percent(downloadedBytes'[t], fileSize[t])
                event == ProgressEvent(t, downloadedBytes'[t], fileSize[t], percent,
                                       "formatSpeed")
            IN  /\ fileSize[t] > 0 /\ percent # LastEmittedPercent(t)
                       => emitted'[t] = Append(emitted[t], event)
                /\ fileSize[t] > 0 /\ percent = LastEmittedPercent(t)
                       => emitted'[t] = emitted[t]
                /\ fileSize[t] = 0
                       => percent = -1 /\ emitted'[t] = Append(emitted[t], event)

C22_PercentIncreases ==
    \A t \in AllTransfers : \A i \in DataEvents(t), j \in DataEvents(t) :
        i < j /\ fileSize[t] > 0 => emitted[t][i].progress < emitted[t][j].progress

SAVE_FAILED == "Failed to save file"

\* the write stream of transfer t emits 'error' in this step
WriterFails(t) == writer[t] # "errored" /\ writer'[t] = "errored"

\* the callback of an fs.unlink runs in this step
UnlinkReturns == unlinks' # unlinks /\ unlinks' \subseteq unlinks

\* the write-error handler emits one download-error with the generic message,
\* issues the deletion of the partial file and removes the entry
C23_ErrorStep ==
    \A t \in AllTransfers :
        WriterFails(t) =>
            /\ emitted'[t] = Append(emitted[t], ErrorEvent(t, SAVE_FAILED))
            /\ filePath(t) \in unlinks'
            /\ t \notin DOMAIN activeDownloads'

\* the deletion reports nothing, whether the file existed or not
C23_UnlinkStep == UnlinkReturns => emitted' = emitted

\* a transfer whose write stream failed has exactly one download-error event
C23_OneError ==
    \A t \in AllTransfers :
        writer[t] = "errored" =>
            /\ Cardinality(EventsOf(t, {"download-error"})) = 1
            /\ \A i \in EventsOf(t, {"download-error"}) : emitted[t][i].error = SAVE_FAILED

\* the partial file of a transfer whose write stream failed is eventually gone
C23_Deleted ==
    \A t \in AllTransfers :
        (writer[t] = "errored") ~> (writer[t] = "errored" /\ filePath(t) \notin DOMAIN files)

UPLOADING == "Uploading to Google Drive..."

\* the download-complete events of transfer t with a local /downloads/ URL
LocalCompletes(t) ==
    {i \in EventsOf(t, {"download-complete"}) : emitted[t][i].source = "local"}

\* the write stream of t finishes in this step with the body on disk
BodyWritten(t) ==
    writer[t] # "finished" /\ writer'[t] = "finished" /\ filePath(t) \in DOMAIN files

\* the upload of t resolves in this step
Published(t) ==
    /\ Uploading(t)
    /\ Len(emitted'[t]) > Len(emitted[t])
    /\ emitted'[t][Len(emitted'[t])].source = "google_drive"

\* the engine issues the deletion of a file in this step
DeletionIssued == unlinks' \ unlinks # {}

\* with the backend ready the publishing event comes first and the upload
\* is called; the success of the upload completes the entry with the direct
\* link and emits download-complete while the local copy still exists; the
\* engine deletes only after a publish or a write error
C24_PublishStep ==
    /\ DeletionIssued =>
           \E o \in AllTransfers :
               /\ Published(o) \/ WriterFails(o)
               /\ unlinks' = unlinks \cup {filePath(o)}
    /\ \A t \in AllTransfers :
        /\ BodyWritten(t) /\ DriveReady =>
               /\ emitted'[t] = Append(emitted[t],
                                       ProgressEvent(t, files[filePath(t)], files[filePath(t)],
                                                     100, UPLOADING))
               /\ fin'[t] = "create"
        /\ Published(t) =>
               /\ Completed(t)'
               /\ activeDownloads'[t].downloadUrl = DirectLink(DriveFileId(t))
               /\ filePath(t) \in DOMAIN files'
               /\ filePath(t) \in unlinks'

\* the file that a local download-complete names is on disk
C24_LocalFileKept ==
    \A t \in AllTransfers : LocalCompletes(t) # {} => filePath(t) \in DOMAIN files

\* C24: with the remote backend initialized, after the body is written the
\* engine first emits a progress event with progress 100 marking the publishing
\* state, then calls the backend; on success the entry becomes completed with
\* the direct link and download-complete is emitted with source google_drive
\* before the local copy is deleted.  The local file is deleted only after a
\* successful publish or a write error: whenever a download-complete carries a
\* local /downloads/ URL, the file it names is still on disk.
C24_PublishThenDelete == []C24_LocalFileKept /\ [][C24_PublishStep]_vars

(* -------------------------------- C25 ---------------------------------- *)
\* the GET response of transfer t arrives in this step
GetArrives(t) == pc[t] = "get" /\ pc'[t] = "registered"

\* a probe-stage name that counts as not yet resolved
Unresolved(name) == name = <<>> \/ StartsWith(name, DEFAULT_FILENAME_PREFIX)

\* the names the resolver gives for the URL of t and some GET response
NamesFromGet(t) == {getFilename(url[t], h, tok) : h \in GetHeaders, tok \in Tokens}

C25_GetStep ==
    \A t \in AllTransfers :
        GetArrives(t) =>
            /\ ~Unresolved(filename[t]) => filename'[t] = filename[t]
            /\ Unresolved(filename[t]) => filename'[t] \in NamesFromGet(t)
            /\ fileSize'[t] = IF fileSize[t] > 0 THEN fileSize[t] ELSE getLength'[t]
            /\ LastOf(Indices(t))' \in StartedEvents(t)'
            /\ emitted'[t][Len(emitted'[t])].filename = filename'[t]
            /\ emitted'[t][Len(emitted'[t])].fileSize = fileSize'[t]

\* C25: after the GET response arrives the probe-stage filename is replaced by
\* the name resolved from the GET response headers if and only if it is empty or
\* begins with the synthesized-default prefix download_; a probe-stage name
\* without that prefix is never overwritten; and the expected size is taken from
\* the GET content-length only when the probe yielded no positive size.
C25_NameAndSizeAfterGet == [][C25_GetStep]_vars

\* the probe gave the default name and no size; the GET response named the file
\* and announced its length
C25_Witness ==
    \E t \in AllTransfers :
        /\ pc[t] = "registered"
        /\ Contains(uniqueFilename[t], DEFAULT_FILENAME_PREFIX)
        /\ filename[t] = ReportName
        /\ fileSize[t] > 0 /\ fileSize[t] = getLength[t]

(* -------------------------------- C26 ---------------------------------- *)
\* C26: a download-progress event of the data handler reports progress 100
\* only when all announced bytes were received (downloadedBytes >= fileSize),
\* and the last progress event of the data handler before download-complete
\* reports the total number of bytes received: the event of the final chunk is
\* not suppressed by the percent throttle.
C26_HundredMeansAll ==
    \A t \in AllTransfers :
        /\ \A i \in DataEvents(t) :
               emitted[t][i].progress = 100
                   => emitted[t][i].downloadedBytes >= emitted[t][i].fileSize
        /\ HasEvent(t, "download-complete") /\ downloadedBytes[t] > 0
               => /\ DataEvents(t) # {}
                  /\ emitted[t][LastOf(DataEvents(t))].downloadedBytes = downloadedBytes[t]

(* -------------------------------- C27 ---------------------------------- *)
\* the suffix form bytes=-n, which has no start
SuffixRange(n) == BYTES_EQ \o <<"-">> \o Decimal(n)

\* Range headers for a file of size bytes: the whole file, an end at the size
\* and beyond it, a start greater than the end, a start at the size and beyond
\* it, and the suffix form
C27_Ranges(size) ==
    {RangeHeader(0, <<size - 1>>), RangeHeader(0, <<size>>), RangeHeader(0, <<size + 7>>),
     RangeHeader(1, <<0>>), RangeHeader(size, <<>>), RangeHeader(size + 1, <<size + 2>>),
     SuffixRange(1)}

\* C27: for every Range header sent to GET /downloads/:filename on an existing
\* file of size S (an end at or beyond S, a start greater than the end, a start
\* at or beyond S and the suffix form included) the Content-Length of the 206
\* response is between 1 and S and equals the number of body bytes served, and
\* the end of its Content-Range is at most S - 1.
C27_RangeWithinFile ==
    \A t \in AllTransfers :
        PathBuilt(t) /\ filePath(t) \in DOMAIN files /\ files[filePath(t)] >= 1 =>
            LET S == files[filePath(t)]
            IN  \A range \in C27_Ranges(S) :
                    LET res == ServeDownload(uniqueFilename[t], range)
                    IN  res.status = 206 =>
                            /\ ~res.contentLength.nan
                            /\ res.contentLength.n \in 1..S
                            /\ res.contentLength.n = BytesRead(S, res.read)
                            /\ res.read.end.n <= S - 1
                            /\ res.contentRange
                                   = BYTES_SP \o Decimal(res.read.start.n) \o <<"-">>
                                         \o Decimal(res.read.end.n) \o <<"/">> \o Decimal(S)

====
